---- MODULE Spec2Model ----
(***************************************************************************)
(* Model of codesearch: the variable-length bitmap (bitmap.rs), the byte   *)
(* classifier (encoding.rs), the trigram extractor and the on-disk trigram *)
(* index with create / load / update / find_trigram (index.rs), and the    *)
(* candidate selection of search (main.rs).                                *)
(*                                                                         *)
(* Bytes are naturals 0..255.  A Vec<u8> is a sequence; the code's index i *)
(* (0-based) is position i+1 of the sequence.                              *)
(***************************************************************************)
EXTENDS Integers, Sequences, FiniteSets, TLC

VARIABLES
    edits,    \* number of changes the environment has made to the tree
    tree,     \* the files of the working tree: file -> [exists, mtime, content]
    dir,      \* the mtime of the working tree's root directory
    clock,    \* the filesystem clock
    disk,     \* the index file: [exists, bytes, mtime]
    handle,   \* the Index value held by the caller
    input,    \* the arguments of the pure operation under check
    res       \* the outcome of the last operation

vars == <<edits, tree, dir, clock, disk, handle, input, res>>

----------------------------------------------------------------------------
(* Bounds of the model *)

MaxBytes == 2      \* longest bitmap operand, in bytes
MaxShift == 9      \* largest shift amount
MaxFiles == 2      \* number of paths of the working tree
MaxTime == 1       \* number of ticks of the filesystem clock
MaxEdits == 2      \* number of changes the environment makes to the tree
MaxFileLen == 4    \* longest file given to the extractor alone
MaxCountByte == 1  \* largest byte of a count field of a crafted header
MaxRecords == 5    \* most records of a posting-list table searched step by step

----------------------------------------------------------------------------
(* u8 arithmetic *)

Pow2(k) == 2 ^ k

Bit(b, k) == (b \div Pow2(k)) % 2

ByteAnd(x, y) ==
    LET f[k \in 0..8] ==
            IF k = 8 THEN 0
            ELSE (IF Bit(x, k) = 1 /\ Bit(y, k) = 1 THEN Pow2(k) ELSE 0) + f[k + 1]
    IN  f[0]

ByteOr(x, y) ==
    LET f[k \in 0..8] ==
            IF k = 8 THEN 0
            ELSE (IF Bit(x, k) = 1 \/ Bit(y, k) = 1 THEN Pow2(k) ELSE 0) + f[k + 1]
    IN  f[0]

ByteXor(x, y) ==
    LET f[k \in 0..8] ==
            IF k = 8 THEN 0
            ELSE (IF Bit(x, k) # Bit(y, k) THEN Pow2(k) ELSE 0) + f[k + 1]
    IN  f[0]

\* u8 << s and u8 >> s for 0 <= s < 8 (the result is truncated to 8 bits)
ByteShl(x, s) == (x * Pow2(s)) % 256
ByteShr(x, s) == x \div Pow2(s)

Max(x, y) == IF x >= y THEN x ELSE y

\* Vec::get(i).unwrap_or(&0)
GetOr0(v, i) == IF i < Len(v) THEN v[i + 1] ELSE 0

----------------------------------------------------------------------------
(* bitmap.rs *)

\* BitMap::new(len): len is a number of BITS; ceil(len / 8) zero bytes
BitMapNew(len) == [k \in 1..((len + 7) \div 8) |-> 0]

\* BitMap::get(i): bit i % 8 (mask 1 << bit) of byte i / 8
BitMapGet(bm, i) == Bit(bm[(i \div 8) + 1], i % 8) = 1

\* A set that ignores the bit position within the byte (mask 1 instead of
\* 1 << bit): the posting lists must tell it from BitMap::set
BitMapSetLowBit(bm, i) ==
    [k \in 1..Len(bm) |->
        IF k = (i \div 8) + 1 THEN ByteOr(bm[k], 1) ELSE bm[k]]

\* BitMap::set(i, true)
BitMapSet(bm, i) ==
    [k \in 1..Len(bm) |->
        IF k = (i \div 8) + 1 THEN ByteOr(bm[k], Pow2(i % 8)) ELSE bm[k]]

\* Outcome of an operation that may panic
Panic == [panic |-> TRUE, bytes |-> <<>>]
Done(v) == [panic |-> FALSE, bytes |-> v]

\* The non-mutating operators allocate the result with Self::new(len), where
\* len is the larger BYTE length, and then store into res.0[i] for i in
\* 0..len: an index past the allocation panics.
ByteOp(op, x, y) ==
    CASE op = "and" -> ByteAnd(x, y)
      [] op = "or"  -> ByteOr(x, y)
      [] op = "xor" -> ByteXor(x, y)

BinOp(a, b, op) ==
    LET len == Max(Len(a), Len(b))
        r0  == BitMapNew(len)
    IN  IF len > Len(r0) THEN Panic
        ELSE Done([k \in 1..len |-> ByteOp(op, GetOr0(a, k - 1), GetOr0(b, k - 1))])

BitAnd(a, b) == BinOp(a, b, "and")
BitOr(a, b) == BinOp(a, b, "or")
BitXor(a, b) == BinOp(a, b, "xor")

\* BitOrAssign: the receiver grows by copying the other side's bytes
BitOrAssign(a, b) ==
    [k \in 1..Max(Len(a), Len(b)) |->
        IF k <= Len(a) THEN ByteOr(a[k], GetOr0(b, k - 1)) ELSE b[k]]

\* One pass of the byte-stride loop of shl_assign: self.0[i-1] = self.0[i]
\* for i in 1..len, then the last byte is cleared.
ShlByteStep(v) ==
    [k \in 1..Len(v) |-> IF k < Len(v) THEN v[k + 1] ELSE 0]

RECURSIVE ShlBytes(_, _)
ShlBytes(v, n) == IF n = 0 THEN v ELSE ShlBytes(ShlByteStep(v), n - 1)

\* The residual loop of shl_assign, iteration i (0-based) on vector v with
\* carry hi from the previous iteration.
RECURSIVE ShlBitsLoop(_, _, _, _, _, _)
ShlBitsLoop(v, i, hi, hi_mask, hi_bits, bit_shifts) ==
    IF i >= Len(v) THEN v
    ELSE LET v1   == [k \in 1..Len(v) |->
                         IF i > 0 /\ k = i THEN ByteOr(v[k], hi) ELSE v[k]]
             byte == v1[i + 1]
             hi2  == ByteShr(ByteAnd(byte, hi_mask), hi_bits)
             v2   == [k \in 1..Len(v) |->
                         IF k = i + 1 THEN ByteShl(byte, bit_shifts) ELSE v1[k]]
         IN  ShlBitsLoop(v2, i + 1, hi2, hi_mask, hi_bits, bit_shifts)

\* ShlAssign::shl_assign(self, rhs).  build is "debug" (overflow checks on:
\* len - 1 on an empty vector and a shift by 8 panic) or "release" (shift
\* amounts are masked to the type's width; indexing with the wrapped len - 1
\* still panics).
ShlAssign(a, rhs, build) ==
    LET byte_shifts == rhs \div 8
        bit_shifts  == rhs % 8
        hi_bits     == 8 - bit_shifts
    IN  IF byte_shifts > 0 /\ Len(a) = 0 THEN Panic
        ELSE IF hi_bits = 8 /\ build = "debug" THEN Panic
        ELSE LET s       == hi_bits % 8
                 hi_mask == ByteShl(255, s)
             IN  Done(ShlBitsLoop(ShlBytes(a, byte_shifts), 0, 0, hi_mask, s,
                                  bit_shifts))

----------------------------------------------------------------------------
(* encoding.rs *)

\* A classifier that lets NUL through: the extractor must tell it from
\* is_printable
IsPrintableOrNul(b) == b = 0 \/ (b > 8 /\ b < 14) \/ (b >= 32 /\ b < 127)

\* is_printable, one byte
IsPrintableByte(b) == (b > 8 /\ b < 14) \/ (b >= 32 /\ b < 127)

\* is_utf8, one byte: the five prefix classes
IsUtf8Byte(b) ==
    \/ b < 128
    \/ (b >= 128 /\ b < 192)
    \/ (b >= 192 /\ b < 224)
    \/ (b >= 224 /\ b < 240)
    \/ (b >= 240 /\ b < 248)

is_printable(s) == \A k \in 1..Len(s) : IsPrintableByte(s[k])
is_utf8(s) == \A k \in 1..Len(s) : IsUtf8Byte(s[k])

IsAsciiAlphanumeric(b) ==
    (b >= 48 /\ b <= 57) \/ (b >= 65 /\ b <= 90) \/ (b >= 97 /\ b <= 122)

ToAsciiLowercase(b) == IF b >= 65 /\ b <= 90 THEN b + 32 ELSE b

Contains(s, x) == \E k \in 1..Len(s) : s[k] = x

----------------------------------------------------------------------------
(* index.rs: the trigram extractor *)

\* The sliding read of index_file from offset i (0-based) of the file with
\* the trigrams collected so far.  read_exact fails when fewer than 3 bytes
\* remain, which ends the loop with Ok(trigrams).  A window that passed
\* is_printable is ASCII, so from_utf8 succeeds and its chars are its bytes.
RECURSIVE IndexFileLoop(_, _, _)
IndexFileLoop(content, i, trigrams) ==
    IF i + 3 > Len(content) THEN [ok |-> TRUE, trigrams |-> trigrams]
    ELSE LET buf == SubSeq(content, i + 1, i + 3)
         IN  IF ~is_utf8(buf) \/ ~is_printable(buf)
             THEN [ok |-> FALSE, trigrams |-> <<>>]
             ELSE IF \E k \in 1..3 : ~IsAsciiAlphanumeric(buf[k])
             THEN IndexFileLoop(content, i + 1, trigrams)
             ELSE LET lower == [k \in 1..3 |-> ToAsciiLowercase(buf[k])]
                  IN  IndexFileLoop(content, i + 1,
                          IF Contains(trigrams, lower) THEN trigrams
                          ELSE Append(trigrams, lower))

\* index_file(path) on a file with the given bytes; ok = FALSE is BinaryFile
index_file(content) == IndexFileLoop(content, 0, <<>>)

----------------------------------------------------------------------------
(* main.rs: query trigrams *)

\* get_trigrams(bytes, buf): every 3-byte window whose bytes are all ASCII
\* alphanumeric, lowercased, appended to buf (duplicates kept)
RECURSIVE GetTrigramsLoop(_, _, _)
GetTrigramsLoop(bytes, i, buf) ==
    IF i + 3 > Len(bytes) THEN buf
    ELSE LET tri == SubSeq(bytes, i + 1, i + 3)
         IN  IF \E k \in 1..3 : ~IsAsciiAlphanumeric(tri[k])
             THEN GetTrigramsLoop(bytes, i + 1, buf)
             ELSE GetTrigramsLoop(bytes, i + 1,
                      Append(buf, [k \in 1..3 |-> ToAsciiLowercase(tri[k])]))

get_trigrams(bytes, buf) ==
    IF Len(bytes) < 3 THEN buf ELSE GetTrigramsLoop(bytes, 0, buf)

----------------------------------------------------------------------------
(* index.rs: the file format *)

HEADER_LEN == 12

\* [u8; 3]::cmp, bytewise lexicographic
TriLess(s, t) ==
    \/ s[1] < t[1]
    \/ s[1] = t[1] /\ s[2] < t[2]
    \/ s[1] = t[1] /\ s[2] = t[2] /\ s[3] < t[3]

\* u32::to_be_bytes
ToBeBytes(n) ==
    <<(n \div 16777216) % 256, (n \div 65536) % 256, (n \div 256) % 256, n % 256>>

\* u32::from_be_bytes
RECURSIVE FromBeBytes(_)
FromBeBytes(b) ==
    IF Len(b) = 0 THEN 0
    ELSE FromBeBytes(SubSeq(b, 1, Len(b) - 1)) * 256 + b[Len(b)]

RECURSIVE Flatten(_)
Flatten(ss) == IF Len(ss) = 0 THEN <<>> ELSE Head(ss) \o Flatten(Tail(ss))

\* write_index(out, documents, index): the bytes written, in order: the
\* header, each record (trigram, then bitmap), each document path and a NUL
WriteIndexBytes(documents, index) ==
    <<75, 67, 83, 3>>
        \o ToBeBytes(Len(documents))
        \o ToBeBytes(Len(index))
        \o Flatten([k \in 1..Len(index) |-> index[k].trigram \o index[k].bitmap])
        \o Flatten([k \in 1..Len(documents) |-> documents[k] \o <<0>>])

\* Index::bitmask_len: ceil(document_count / 8)
bitmask_len(h) == (h.document_count + 7) \div 8

\* read_exact of n bytes at offset pos: fails when fewer than n remain
CanRead(bytes, pos, n) == pos + n <= Len(bytes)
ReadAt(bytes, pos, n) == SubSeq(bytes, pos + 1, pos + n)

\* read_until(0, buf) at offset pos: the bytes up to and including the first
\* NUL, or up to the end of the file
RECURSIVE ReadUntilNul(_, _)
ReadUntilNul(bytes, pos) ==
    IF pos >= Len(bytes) THEN <<>>
    ELSE IF bytes[pos + 1] = 0 THEN <<0>>
    ELSE <<bytes[pos + 1]>> \o ReadUntilNul(bytes, pos + 1)

\* Vec::pop: drops the last byte, if any
Pop(buf) == IF Len(buf) = 0 THEN buf ELSE SubSeq(buf, 1, Len(buf) - 1)

----------------------------------------------------------------------------
(* index.rs: inversion, shared by create and update *)

\* index.get_mut(t).unwrap().set(i, true) for every document i that holds t,
\* on the bitmap BitMap::new(documents.len()) inserted on first sight
RECURSIVE PostingFor(_, _, _, _)
PostingFor(t, documents, i, bm) ==
    IF i >= Len(documents) THEN bm
    ELSE PostingFor(t, documents, i + 1,
             IF Contains(documents[i + 1].trigrams, t) THEN BitMapSet(bm, i)
             ELSE bm)

AllTrigrams(documents) ==
    UNION {{documents[k].trigrams[j] : j \in 1..Len(documents[k].trigrams)} :
              k \in 1..Len(documents)}

\* index.sort_by(|a, b| a.0.cmp(&b.0)) on the entries of the map
RECURSIVE SortTrigrams(_)
SortTrigrams(S) ==
    IF S = {} THEN <<>>
    ELSE LET m == CHOOSE x \in S : \A y \in S : x = y \/ TriLess(x, y)
         IN  <<m>> \o SortTrigrams(S \ {m})

\* The sorted posting-list table built from documents (a sequence of
\* [path, trigrams] in ordinal order)
Invert(documents) ==
    LET keys == SortTrigrams(AllTrigrams(documents))
    IN  [k \in 1..Len(keys) |->
            [trigram |-> keys[k],
             bitmap  |-> PostingFor(keys[k], documents, 0,
                                    BitMapNew(Len(documents)))]]

----------------------------------------------------------------------------
(* The working tree, as the directory walker reports it *)

PathOf(k) == <<96 + k>>

\* The path of the root directory, "."
RootPath == <<46>>

RECURSIVE WalkFrom(_, _)
WalkFrom(files, k) ==
    IF k > MaxFiles THEN <<>>
    ELSE (IF files[k].exists
          THEN <<[path |-> PathOf(k), mtime |-> files[k].mtime,
                  content |-> files[k].content]>>
          ELSE <<>>) \o WalkFrom(files, k + 1)

\* ignore::Walk::new("."): the root directory, then the files, in a fixed
\* order.  Reading a directory fails at once, which index_file takes as the
\* end of the input: a directory is extracted like an empty file.
Walk(files, dirtime) ==
    <<[path |-> RootPath, mtime |-> dirtime, content |-> <<>>]>>
        \o WalkFrom(files, 1)

----------------------------------------------------------------------------
(* index.rs: Index::load *)

NoHandle ==
    [open |-> FALSE, document_count |-> 0, ngram_count |-> 0, modified |-> 0,
     writable |-> FALSE]

\* A load that checks the n-gram width before the magic: the classification
\* of headers must tell it from Index::load
load_width_first(d) ==
    IF ~d.exists \/ ~CanRead(d.bytes, 0, HEADER_LEN)
    THEN [status |-> "Other", n |-> 0, handle |-> NoHandle]
    ELSE LET header == ReadAt(d.bytes, 0, HEADER_LEN)
         IN  IF header[4] # 3
             THEN [status |-> "UnsupportedNGramLength", n |-> header[4],
                   handle |-> NoHandle]
             ELSE IF SubSeq(header, 1, 3) # <<75, 67, 83>>
             THEN [status |-> "InvalidHeader", n |-> 0, handle |-> NoHandle]
             ELSE [status |-> "ok", n |-> 3,
                   handle |-> [open |-> TRUE,
                               document_count |-> FromBeBytes(SubSeq(header, 5, 8)),
                               ngram_count |-> FromBeBytes(SubSeq(header, 9, 12)),
                               modified |-> d.mtime,
                               writable |-> FALSE]]

\* The first failing check decides the error: open, read_exact of the 12
\* header bytes, the magic, the n-gram width.  File::open opens read-only.
load(d) ==
    IF ~d.exists \/ ~CanRead(d.bytes, 0, HEADER_LEN)
    THEN [status |-> "Other", n |-> 0, handle |-> NoHandle]
    ELSE LET header == ReadAt(d.bytes, 0, HEADER_LEN)
         IN  IF SubSeq(header, 1, 3) # <<75, 67, 83>>
             THEN [status |-> "InvalidHeader", n |-> 0, handle |-> NoHandle]
             ELSE IF header[4] # 3
             THEN [status |-> "UnsupportedNGramLength", n |-> header[4],
                   handle |-> NoHandle]
             ELSE [status |-> "ok", n |-> 3,
                   handle |-> [open |-> TRUE,
                               document_count |-> FromBeBytes(SubSeq(header, 5, 8)),
                               ngram_count |-> FromBeBytes(SubSeq(header, 9, 12)),
                               modified |-> d.mtime,
                               writable |-> FALSE]]

----------------------------------------------------------------------------
(* index.rs: Index::create *)

\* The documents kept by create: files whose extraction fails and files with
\* no trigram are skipped; ordinals follow the walk
RECURSIVE CreateDocuments(_)
CreateDocuments(files) ==
    IF Len(files) = 0 THEN <<>>
    ELSE LET r == index_file(Head(files).content)
         IN  (IF r.ok /\ Len(r.trigrams) # 0
              THEN <<[path |-> Head(files).path, trigrams |-> r.trigrams]>>
              ELSE <<>>) \o CreateDocuments(Tail(files))

PathsOf(documents) == [k \in 1..Len(documents) |-> documents[k].path]

\* The bytes create writes for a tree
CreateBytes(files, dirtime) ==
    LET documents == CreateDocuments(Walk(files, dirtime))
    IN  WriteIndexBytes(PathsOf(documents), Invert(documents))

----------------------------------------------------------------------------
(* index.rs: Index::find_trigram *)

NotFound(probes) ==
    [status |-> "ok", found |-> FALSE, bitmap |-> <<>>, probes |-> probes]

IoError(probes) ==
    [status |-> "Other", found |-> FALSE, bitmap |-> <<>>, probes |-> probes]

\* A loop condition that lets the midpoint sit on either end of the window:
\* the search must tell it from the condition of find_trigram
InWindowClosed(rec, rec_start, rec_end) == rec >= rec_start /\ rec <= rec_end

\* The loop condition of find_trigram
InWindow(rec, rec_start, rec_end) == rec > rec_start /\ rec < rec_end

\* The loop of find_trigram; probes lists the record indices it seeks to
RECURSIVE FindTrigramLoop(_, _, _, _, _, _, _)
FindTrigramLoop(h, bytes, trigram, rec_start, rec_end, rec, probes) ==
    IF ~InWindow(rec, rec_start, rec_end) THEN NotFound(probes)
    ELSE LET skip == bitmask_len(h) + 3
             pos  == rec * skip + HEADER_LEN
             seen == Append(probes, rec)
         IN  IF ~CanRead(bytes, pos, 3) THEN IoError(seen)
             ELSE LET buf == ReadAt(bytes, pos, 3)
                  IN  IF TriLess(trigram, buf)
                      THEN FindTrigramLoop(h, bytes, trigram, rec_start, rec,
                               rec_start + (rec - rec_start) \div 2, seen)
                      ELSE IF trigram = buf
                      THEN IF ~CanRead(bytes, pos + 3, bitmask_len(h))
                           THEN IoError(seen)
                           ELSE [status |-> "ok", found |-> TRUE,
                                 bitmap |-> ReadAt(bytes, pos + 3, bitmask_len(h)),
                                 probes |-> seen]
                      ELSE FindTrigramLoop(h, bytes, trigram, rec, rec_end,
                               rec + (rec_end - rec) \div 2 + 1, seen)

\* The first record probed
FirstRec(ngram_count) == ngram_count \div 2 + 1

find_trigram(h, bytes, trigram) ==
    FindTrigramLoop(h, bytes, trigram, 0, h.ngram_count,
                    FirstRec(h.ngram_count), <<>>)

\* find_trigram one iteration at a time: the loop variables, whether the
\* function has returned, and what it returned
Searching(rec_start, rec_end, rec, probes) ==
    [op |-> "find_step", rec_start |-> rec_start, rec_end |-> rec_end,
     rec |-> rec, done |-> FALSE, out |-> NotFound(probes)]

Returning(s, out) ==
    [op |-> "find_step", rec_start |-> s.rec_start, rec_end |-> s.rec_end,
     rec |-> s.rec, done |-> TRUE, out |-> out]

\* Lines 306-308: the loop variables before the first test
FindEnter(h) == Searching(0, h.ngram_count, FirstRec(h.ngram_count), <<>>)

\* Lines 311-331: the test of the loop condition and one pass of the body
FindIterate(h, bytes, trigram, s) ==
    IF ~InWindow(s.rec, s.rec_start, s.rec_end)
    THEN Returning(s, NotFound(s.out.probes))
    ELSE LET skip == bitmask_len(h) + 3
             pos  == s.rec * skip + HEADER_LEN
             seen == Append(s.out.probes, s.rec)
         IN  IF ~CanRead(bytes, pos, 3) THEN Returning(s, IoError(seen))
             ELSE LET buf == ReadAt(bytes, pos, 3)
                  IN  IF TriLess(trigram, buf)
                      THEN Searching(s.rec_start, s.rec,
                               s.rec_start + (s.rec - s.rec_start) \div 2, seen)
                      ELSE IF trigram = buf
                      THEN IF ~CanRead(bytes, pos + 3, bitmask_len(h))
                           THEN Returning(s, IoError(seen))
                           ELSE Returning(s,
                                    [status |-> "ok", found |-> TRUE,
                                     bitmap |-> ReadAt(bytes, pos + 3, bitmask_len(h)),
                                     probes |-> seen])
                      ELSE Searching(s.rec, s.rec_end,
                               s.rec + (s.rec_end - s.rec) \div 2 + 1, seen)

\* Line 280 of find_document: where the handle takes the document table to start
DocTableStart(h) == HEADER_LEN + (bitmask_len(h) + 3) * h.ngram_count

NoDocument == [found |-> FALSE, path |-> <<>>]

\* Lines 283-297: skip `document` paths, then read one and drop its NUL
RECURSIVE FindDocumentLoop(_, _, _)
FindDocumentLoop(bytes, pos, document) ==
    LET raw == ReadUntilNul(bytes, pos)
    IN  IF Len(raw) = 0 THEN NoDocument
        ELSE IF document = 0 THEN [found |-> TRUE, path |-> Pop(raw)]
        ELSE FindDocumentLoop(bytes, pos + Len(raw), document - 1)

find_document(h, bytes, document) ==
    FindDocumentLoop(bytes, DocTableStart(h), document)

----------------------------------------------------------------------------
(* main.rs: search, up to the candidate bitmap *)

\* for t in &trigrams { if let Some(v) = index.find_trigram(*t)? { any |= &v } }
RECURSIVE SearchLoop(_, _, _, _)
SearchLoop(h, bytes, trigrams, any) ==
    IF Len(trigrams) = 0 THEN [status |-> "ok", any |-> any]
    ELSE LET f == find_trigram(h, bytes, Head(trigrams))
         IN  IF f.status # "ok" THEN [status |-> "Other", any |-> <<>>]
             ELSE SearchLoop(h, bytes, Tail(trigrams),
                      IF f.found THEN BitOrAssign(any, f.bitmap) ELSE any)

RECURSIVE TermTrigrams(_, _)
TermTrigrams(terms, buf) ==
    IF Len(terms) = 0 THEN buf
    ELSE TermTrigrams(Tail(terms), get_trigrams(Head(terms), buf))

\* The accumulator is BitMap::new(bitmask_len), a bit count given in bytes
search(h, bytes, terms) ==
    SearchLoop(h, bytes, TermTrigrams(terms, <<>>), BitMapNew(bitmask_len(h)))

----------------------------------------------------------------------------
(* index.rs: Index::update *)

MapInsert(m, k, v) == [x \in (DOMAIN m) \cup {k} |-> IF x = k THEN v ELSE m[x]]
MapRemove(m, k) == [x \in (DOMAIN m) \ {k} |-> m[x]]
EmptyMap == [x \in {} |-> <<>>]

\* A freshness test that takes an entry as old as the index for newer: the
\* early return of update must tell it from needs_reindex
NeedsReindexOrEqual(h, files) == \E k \in 1..Len(files) : files[k].mtime >= h.modified

\* needs_reindex: some walked entry is newer than the index
NeedsReindex(h, files) == \E k \in 1..Len(files) : files[k].mtime > h.modified

\* Lines 196-205: the table read into memory, ngram_count records of
\* 3 + bitmap_len bytes from offset 12; ok = FALSE when a read_exact fails
LoadTable(h, bytes) ==
    LET w == 3 + bitmask_len(h)
    IN  IF \E r \in 0..(h.ngram_count - 1) : ~CanRead(bytes, HEADER_LEN + r * w, w)
        THEN [ok |-> FALSE, index |-> <<>>]
        ELSE [ok |-> TRUE,
              index |-> [k \in 1..h.ngram_count |->
                  [trigram |-> ReadAt(bytes, HEADER_LEN + (k - 1) * w, 3),
                   bitmap  |-> ReadAt(bytes, HEADER_LEN + (k - 1) * w + 3,
                                      bitmask_len(h))]]]

\* filter_map over the table: the trigrams whose bit i is set
RECURSIVE TrigramsAt(_, _)
TrigramsAt(index, i) ==
    IF Len(index) = 0 THEN <<>>
    ELSE (IF BitMapGet(Head(index).bitmap, i) THEN <<Head(index).trigram>>
          ELSE <<>>) \o TrigramsAt(Tail(index), i)

\* Lines 207-231: the document table read sequentially from offset pos into
\* the map; documents the walk did not yield are dropped, and so are
\* documents with no trigram
RECURSIVE LoadDocuments(_, _, _, _, _, _)
LoadDocuments(h, bytes, pos, i, files, acc) ==
    IF i >= h.document_count THEN acc.documents
    ELSE LET raw == ReadUntilNul(bytes, pos)
             doc == Pop(raw)
             tri == TrigramsAt(acc.index, i)
             nxt == IF ~(\E k \in 1..Len(files) : files[k].path = doc)
                    THEN acc.documents
                    ELSE IF Len(tri) = 0 THEN MapRemove(acc.documents, doc)
                    ELSE MapInsert(acc.documents, doc, tri)
         IN  LoadDocuments(h, bytes, pos + Len(raw), i + 1, files,
                           [acc EXCEPT !.documents = nxt])

\* Lines 233-252: every walked entry newer than the index is extracted again;
\* a failure leaves the map as it is, a success inserts whatever was found
RECURSIVE Reindex(_, _, _)
Reindex(h, files, documents) ==
    IF Len(files) = 0 THEN documents
    ELSE LET f == Head(files)
             r == index_file(f.content)
         IN  Reindex(h, Tail(files),
                 IF f.mtime > h.modified /\ r.ok
                 THEN MapInsert(documents, f.path, r.trigrams)
                 ELSE documents)

\* The document map update holds at line 253
UpdateDocuments(h, bytes, files) ==
    LET t == LoadTable(h, bytes)
        w == 3 + bitmask_len(h)
    IN  Reindex(h, files,
            LoadDocuments(h, bytes, HEADER_LEN + h.ngram_count * w, 0, files,
                          [index |-> t.index, documents |-> EmptyMap]))

\* The iteration orders a HashMap with these keys may have
Orders(m) ==
    {o \in [1..Cardinality(DOMAIN m) -> DOMAIN m] :
        \A x, y \in DOMAIN o : x # y => o[x] # o[y]}

\* A write that succeeds whatever the file was opened for: what holds of the
\* handle after update must tell it from update's write
WriteThroughAnyHandle(h, d, new, now) ==
    [ok |-> TRUE,
     disk |-> [exists |-> d.exists,
               bytes  |-> new \o SubSeq(d.bytes, Len(new) + 1, Len(d.bytes)),
               mtime  |-> now]]

\* out.write_all through a file: fails on a descriptor not opened for writing;
\* otherwise overwrites from offset 0 and keeps what lies past the new bytes
WriteThrough(h, d, new, now) ==
    IF ~h.writable THEN [ok |-> FALSE, disk |-> d]
    ELSE [ok |-> TRUE,
          disk |-> [d EXCEPT !.bytes = new \o SubSeq(d.bytes, Len(new) + 1, Len(d.bytes)),
                             !.mtime = now]]

----------------------------------------------------------------------------
(* The index and its working tree as a state machine *)

\* File contents the environment writes: "Abcd", "bcde", "ab c", "ab" NUL
Contents ==
    {<<65, 98, 99, 100>>, <<98, 99, 100, 101>>, <<97, 98, 32, 99>>, <<97, 98, 0>>}

\* File contents of the trees that are queried: "Abcde", "bcd", "xyz1", "ab c"
QueryContents ==
    {<<65, 98, 99, 100, 101>>, <<98, 99, 100>>, <<120, 121, 122, 49>>,
     <<97, 98, 32, 99>>}

\* Trigrams asked of find_trigram: abc, bcd, cde, xyz, yz1 and one in no file
QueryTrigrams ==
    {<<97, 98, 99>>, <<98, 99, 100>>, <<99, 100, 101>>, <<120, 121, 122>>,
     <<121, 122, 49>>, <<109, 109, 109>>}

\* Query terms given to search: "ABC", "bcde", "XYZ1", "c-d", "xy"
QueryTerms ==
    {<<65, 66, 67>>, <<98, 99, 100, 101>>, <<88, 89, 90, 49>>, <<99, 45, 100>>,
     <<120, 121>>}

Absent == [exists |-> FALSE, mtime |-> 0, content |-> <<>>]
NoDisk == [exists |-> FALSE, bytes |-> <<>>, mtime |-> 0]
NoInput == [kind |-> "none"]

Init ==
    /\ edits = 0
    /\ tree = [k \in 1..MaxFiles |-> Absent]
    /\ dir = 0
    /\ clock = 0
    /\ disk = NoDisk
    /\ handle = NoHandle
    /\ input = NoInput
    /\ res = [op |-> "init"]

\* update has failed: main goes on to create at once (main.rs, or_else)
UpdateFailed == res.op = "update" /\ res.status # "ok"

\* The environment writes a file: its mtime is the current time, and so is
\* the directory's when the file is new
WriteFile(k, c) ==
    /\ ~UpdateFailed
    /\ edits < MaxEdits
    /\ edits' = edits + 1
    /\ tree' = [tree EXCEPT ![k] = [exists |-> TRUE, mtime |-> clock, content |-> c]]
    /\ dir' = IF tree[k].exists THEN dir ELSE clock
    /\ res' = [op |-> "env"]
    /\ UNCHANGED <<clock, disk, handle, input>>

\* The environment removes a file: the directory's mtime is the current time
RemoveFile(k) ==
    /\ ~UpdateFailed
    /\ edits < MaxEdits
    /\ edits' = edits + 1
    /\ tree[k].exists
    /\ tree' = [tree EXCEPT ![k] = Absent]
    /\ dir' = clock
    /\ res' = [op |-> "env"]
    /\ UNCHANGED <<clock, disk, handle, input>>

\* The filesystem clock advances by one tick of its timestamp granularity
Tick ==
    /\ ~UpdateFailed
    /\ clock < MaxTime
    /\ clock' = clock + 1
    /\ res' = [op |-> "env"]
    /\ UNCHANGED <<edits, tree, dir, disk, handle, input>>

\* Index::create: walk, extract, invert, write the file (kept outside the
\* tree), load it.  The file's mtime is the current time.  main calls create
\* when load or update has failed.
Create ==
    /\ ~disk.exists \/ UpdateFailed
    /\ LET documents == CreateDocuments(Walk(tree, dir))
           index     == Invert(documents)
           d         == [exists |-> TRUE,
                         bytes  |-> WriteIndexBytes(PathsOf(documents), index),
                         mtime  |-> clock]
           l         == load(d)
       IN  /\ disk' = d
           /\ handle' = l.handle
           /\ res' = [op |-> "create", status |-> l.status]
    /\ UNCHANGED <<edits, tree, dir, clock, input>>

\* Index::load on the index file
Load ==
    /\ LET l == load(disk)
       IN  /\ handle' = l.handle
           /\ res' = [op |-> "load", status |-> l.status, n |-> l.n]
    /\ UNCHANGED <<edits, tree, dir, clock, disk, input>>

\* What update reports: its result, whether it found a newer entry, whether
\* it reached write_index, the image it handed to it, and whether the write
\* went through
Returned(status, needs_reindex, called, image, wrote) ==
    [op |-> "update", status |-> status, needs_reindex |-> needs_reindex,
     called |-> called, image |-> image, wrote |-> wrote]

\* Index::update on the handle.  The handle's counts and mtime are not
\* assigned by update.
Update ==
    /\ ~UpdateFailed
    /\ handle.open
    /\ LET files == Walk(tree, dir)
       IN  IF ~NeedsReindex(handle, files)
           THEN /\ res' = Returned("ok", FALSE, FALSE, <<>>, FALSE)
                /\ UNCHANGED disk
           ELSE IF ~LoadTable(handle, disk.bytes).ok
           THEN /\ res' = Returned("Other", TRUE, FALSE, <<>>, FALSE)
                /\ UNCHANGED disk
           ELSE LET m == UpdateDocuments(handle, disk.bytes, files)
                IN  \E o \in Orders(m) :
                        LET documents == [k \in 1..Len(o) |->
                                             [path |-> o[k], trigrams |-> m[o[k]]]]
                            image     == WriteIndexBytes(PathsOf(documents),
                                                         Invert(documents))
                            w         == WriteThrough(handle, disk, image, clock)
                        IN  /\ disk' = w.disk
                            /\ res' = Returned(IF w.ok THEN "ok" ELSE "Other",
                                               TRUE, TRUE, image, w.ok)
    /\ UNCHANGED <<edits, tree, dir, clock, handle, input>>

\* Index::find_trigram on the handle
FindTrigram(trigram) ==
    /\ handle.open
    /\ res' = [op |-> "find_trigram", trigram |-> trigram,
               out |-> find_trigram(handle, disk.bytes, trigram)]
    /\ UNCHANGED <<edits, tree, dir, clock, disk, handle, input>>

\* search with one query term, up to the candidate bitmap
Search(term) ==
    /\ handle.open
    /\ res' = [op |-> "search", term |-> term,
               out |-> search(handle, disk.bytes, <<term>>)]
    /\ UNCHANGED <<edits, tree, dir, clock, disk, handle, input>>

Next ==
    \/ \E k \in 1..MaxFiles, c \in Contents : WriteFile(k, c)
    \/ \E k \in 1..MaxFiles : RemoveFile(k)
    \/ Tick
    \/ Create
    \/ Update

Spec == Init /\ [][Next]_vars

----------------------------------------------------------------------------
(* Queries on a created index *)

Idle ==
    /\ edits = 0
    /\ dir = 0
    /\ clock = 0
    /\ handle = NoHandle
    /\ res = [op |-> "init"]

EmptyTree == [k \in 1..MaxFiles |-> Absent]

InitQuery ==
    /\ Idle
    /\ input = NoInput
    /\ disk = NoDisk
    /\ tree \in [1..MaxFiles ->
                    {Absent} \cup {[exists |-> TRUE, mtime |-> 0, content |-> c] :
                                      c \in QueryContents}]

NextQuery ==
    \/ Create
    \/ \E t \in QueryTrigrams : FindTrigram(t)
    \/ \E term \in QueryTerms : Search(term)

SpecQuery == InitQuery /\ [][NextQuery]_vars

----------------------------------------------------------------------------
(* Index::load on arbitrary files *)

CountFields ==
    {<<x, 0, 0, y>> : x \in 0..MaxCountByte, y \in 0..MaxCountByte}

\* Headers with a right or wrong magic, a right or wrong width, two counts
\* and one byte of table, cut at every length
CraftedFiles ==
    {SubSeq(m \o <<w>> \o dc \o nc \o <<97>>, 1, len) :
        m \in {<<75, 67, 83>>, <<75, 67, 115>>, <<0, 67, 83>>},
        w \in {3, 0, 4},
        dc \in CountFields, nc \in CountFields,
        len \in 0..(HEADER_LEN + 1)}

InitLoad ==
    /\ Idle
    /\ input = NoInput
    /\ tree = EmptyTree
    /\ disk \in {NoDisk} \cup {[exists |-> TRUE, bytes |-> b, mtime |-> 0] :
                                  b \in CraftedFiles}

SpecLoad == InitLoad /\ [][Load]_vars

----------------------------------------------------------------------------
(* The bitmap operators on arbitrary operands *)

ByteVals == {0, 1, 128, 255}

RECURSIVE SeqsUpTo(_, _)
SeqsUpTo(S, n) ==
    IF n = 0 THEN {<<>>}
    ELSE LET shorter == SeqsUpTo(S, n - 1)
         IN  shorter \cup {Append(q, x) : q \in {r \in shorter : Len(r) = n - 1}, x \in S}

BitMaps == SeqsUpTo(ByteVals, MaxBytes)

InitBitmap ==
    /\ Idle
    /\ tree = EmptyTree
    /\ disk = NoDisk
    /\ input \in {[kind |-> "shl", a |-> a, n |-> n, build |-> b] :
                     a \in BitMaps, n \in 0..MaxShift, b \in {"debug", "release"}}
               \cup {[kind |-> "binary", a |-> a, b |-> b] :
                        a \in BitMaps, b \in BitMaps}

Apply(op, out) ==
    /\ res' = [op |-> op, out |-> out]
    /\ UNCHANGED <<edits, tree, dir, clock, disk, handle, input>>

\* a << n (Shl::shl clones the receiver and applies shl_assign)
ShlOp == input.kind = "shl" /\ Apply("shl", ShlAssign(input.a, input.n, input.build))

\* a & b, a | b, a ^ b
BitAndOp == input.kind = "binary" /\ Apply("and", BitAnd(input.a, input.b))
BitOrOp == input.kind = "binary" /\ Apply("or", BitOr(input.a, input.b))
BitXorOp == input.kind = "binary" /\ Apply("xor", BitXor(input.a, input.b))

NextBitmap == ShlOp \/ BitAndOp \/ BitOrOp \/ BitXorOp

SpecBitmap == InitBitmap /\ [][NextBitmap]_vars

----------------------------------------------------------------------------
(* The trigram extractor on arbitrary files *)

\* NUL, space, '9', 'B', 'a'
FileBytes == {0, 32, 57, 66, 97}

InitExtract ==
    /\ Idle
    /\ tree = EmptyTree
    /\ disk = NoDisk
    /\ input \in {[kind |-> "file", content |-> c] : c \in SeqsUpTo(FileBytes, MaxFileLen)}

ExtractFile == input.kind = "file" /\ Apply("index_file", index_file(input.content))

SpecExtract == InitExtract /\ [][ExtractFile]_vars

----------------------------------------------------------------------------
(* The binary search of find_trigram, one iteration per step *)

\* The trigrams a table may hold, aac, aae, ...; the trigrams asked for lie
\* below, on, between and above them
TableTrigram(k) == <<97, 97, 97 + 2 * k>>

QueriedTrigrams == {<<97, 97, 97 + j>> : j \in 1..(2 * MaxRecords + 1)}

\* The index file of one document "a" whose table holds the trigrams of S
TableImage(S) ==
    LET keys == SortTrigrams({TableTrigram(k) : k \in S})
    IN  WriteIndexBytes(<<PathOf(1)>>,
            [k \in 1..Len(keys) |-> [trigram |-> keys[k], bitmap |-> <<1>>]])

InitFind ==
    /\ Idle
    /\ tree = EmptyTree
    /\ input \in {[kind |-> "find", trigram |-> q] : q \in QueriedTrigrams}
    /\ disk \in {[exists |-> TRUE, bytes |-> TableImage(S), mtime |-> 0] :
                    S \in SUBSET (1..MaxRecords)}

\* Index::load of the file, then the entry of find_trigram
FindBegin ==
    /\ input.kind = "find"
    /\ res.op = "init"
    /\ handle' = load(disk).handle
    /\ res' = FindEnter(load(disk).handle)
    /\ UNCHANGED <<edits, tree, dir, clock, disk, input>>

\* One test of the loop condition and one pass of the loop body
FindStep ==
    /\ res.op = "find_step"
    /\ ~res.done
    /\ res' = FindIterate(handle, disk.bytes, input.trigram, res)
    /\ UNCHANGED <<edits, tree, dir, clock, disk, handle, input>>

NextFind == FindBegin \/ FindStep

\* The loop runs on one thread: an iteration that can run does run
SpecFind == InitFind /\ [][NextFind]_vars /\ WF_vars(NextFind)

----------------------------------------------------------------------------
(* Reading an index file by its layout, for the properties below *)

TestBit(bm, i) == (bm[(i \div 8) + 1] \div Pow2(i % 8)) % 2 = 1

HdrDocs(b) == b[5] * 16777216 + b[6] * 65536 + b[7] * 256 + b[8]
HdrNgrams(b) == b[9] * 16777216 + b[10] * 65536 + b[11] * 256 + b[12]
RecWidth(b) == 3 + (HdrDocs(b) + 7) \div 8
RecTrigram(b, r) == SubSeq(b, 12 + r * RecWidth(b) + 1, 12 + r * RecWidth(b) + 3)
RecBitmap(b, r) ==
    SubSeq(b, 12 + r * RecWidth(b) + 4, 12 + (r + 1) * RecWidth(b))

RECURSIVE SplitAtNul(_, _)
SplitAtNul(b, cur) ==
    IF Len(b) = 0 THEN <<>>
    ELSE IF Head(b) = 0 THEN <<cur>> \o SplitAtNul(Tail(b), <<>>)
    ELSE SplitAtNul(Tail(b), Append(cur, Head(b)))

\* The document table: the NUL-terminated paths after the posting-list table
TablePaths(b) ==
    SplitAtNul(SubSeq(b, 12 + HdrNgrams(b) * RecWidth(b) + 1, Len(b)), <<>>)

\* The documents a trigram's record marks, by path
Marked(b, t) ==
    {TablePaths(b)[i + 1] :
        i \in {j \in 0..(HdrDocs(b) - 1) :
                  \E r \in 0..(HdrNgrams(b) - 1) :
                      RecTrigram(b, r) = t /\ TestBit(RecBitmap(b, r), j)}}

TableTrigrams(b) == {RecTrigram(b, r) : r \in 0..(HdrNgrams(b) - 1)}

Range(q) == {q[k] : k \in 1..Len(q)}

\* Two index files parse identically
SameIndex(x, y) ==
    /\ HdrDocs(x) = HdrDocs(y)
    /\ Range(TablePaths(x)) = Range(TablePaths(y))
    /\ HdrNgrams(x) = HdrNgrams(y)
    /\ \A t \in TableTrigrams(x) \cup TableTrigrams(y) : Marked(x, t) = Marked(y, t)

\* The bytes of the file at a path of the tree
ContentOf(path) == IF path = RootPath THEN <<>> ELSE tree[path[1] - 96].content

\* The file has a 3-byte window that is trigram t once lowercased
HasTrigram(content, t) ==
    \E i \in 0..(Len(content) - 3) :
        [k \in 1..3 |-> ToAsciiLowercase(content[i + k])] = t

\* The lowercased ASCII-alphanumeric trigrams of a query term
TermTrigramSet(term) ==
    {[k \in 1..3 |-> ToAsciiLowercase(term[i + k])] :
        i \in {j \in 0..(Len(term) - 3) :
                  \A k \in 1..3 : IsAsciiAlphanumeric(term[j + k])}}

\* The index image the last update handed to write_index
UpdateImage == res.image

----------------------------------------------------------------------------
(* Properties *)

\* C1: on a written index with at least one record, find_trigram(t) returns
\* the stored posting list of t when t is a record of the table (whatever its
\* position) and none when it is not.
C1_FindTrigramReturnsPostingList ==
    (res.op = "find_trigram" /\ HdrNgrams(disk.bytes) >= 1) =>
        LET b   == disk.bytes
            hit == {r \in 0..(HdrNgrams(b) - 1) : RecTrigram(b, r) = res.trigram}
        IN  /\ res.out.status = "ok"
            /\ hit # {} => /\ res.out.found
                           /\ \A r \in hit : res.out.bitmap = RecBitmap(b, r)
            /\ hit = {} => ~res.out.found

\* C2: for a query term with at least one ASCII-alphanumeric trigram, bit i of
\* the candidate bitmap of search is set iff document i contains one of the
\* term's trigrams, for every ordinal i below the document count.
C2_CandidateBitmapMatchesDocuments ==
    (res.op = "search" /\ TermTrigramSet(res.term) # {}) =>
        LET b == disk.bytes
        IN  /\ res.out.status = "ok"
            /\ \A i \in 0..(HdrDocs(b) - 1) :
                   (i \div 8 < Len(res.out.any) /\ TestBit(res.out.any, i))
                   <=> \E t \in TermTrigramSet(res.term) :
                           HasTrigram(ContentOf(TablePaths(b)[i + 1]), t)

\* An update that rewrote the index file
Rewrote == res.op = "update" /\ res.needs_reindex /\ res.status = "ok"

\* C3: after create, and after an update that rewrites the index, the document
\* table has D entries and, for every record and every bit i of its bitmap,
\* the bit is set iff i < D and document i contains the record's trigram; every
\* record's trigram is in some document.
C3_PostingBitsMatchDocuments ==
    (res.op = "create" \/ Rewrote) =>
        LET b == disk.bytes
            D == HdrDocs(b)
        IN  /\ Len(TablePaths(b)) = D
            /\ \A r \in 0..(HdrNgrams(b) - 1) :
                   /\ \A i \in 0..(8 * Len(RecBitmap(b, r)) - 1) :
                          TestBit(RecBitmap(b, r), i)
                          <=> (i < D /\ HasTrigram(ContentOf(TablePaths(b)[i + 1]),
                                                   RecTrigram(b, r)))
                   /\ \E i \in 0..(D - 1) :
                          HasTrigram(ContentOf(TablePaths(b)[i + 1]), RecTrigram(b, r))

\* C3 witness: create wrote two documents and three records whose bitmaps
\* mark the first, both and the second document.
C3_Witness ==
    /\ res.op = "create"
    /\ HdrDocs(disk.bytes) = 2
    /\ HdrNgrams(disk.bytes) = 3
    /\ RecBitmap(disk.bytes, 0) = <<1>>
    /\ RecBitmap(disk.bytes, 1) = <<3>>
    /\ RecBitmap(disk.bytes, 2) = <<2>>

\* C4: after an update that found newer files, the index it writes parses
\* identically to a fresh create over the same tree.
C4_UpdateEqualsFreshCreate ==
    (res.op = "update" /\ res.needs_reindex /\ res.called) =>
        SameIndex(UpdateImage, CreateBytes(tree, dir))

\* C5: after update returns successfully, every path in the document table of
\* the index file is a path the walk of the current tree yielded.
C5_UpdateDropsRemovedFiles ==
    (res.op = "update" /\ res.status = "ok") =>
        \A p \in Range(TablePaths(disk.bytes)) :
            \E k \in 1..Len(Walk(tree, dir)) : Walk(tree, dir)[k].path = p

\* C6: load classifies a file by its first 12 bytes: an I/O error when there
\* are fewer than 12; otherwise InvalidHeader iff bytes 0..3 are not K C S
\* (whatever the width byte), UnsupportedNGramLength(n) iff the magic is there
\* and byte 3 is n # 3, and otherwise success with the two counts equal to the
\* big-endian u32 values at bytes 4..8 and 8..12.
C6_LoadClassifiesHeader ==
    (res.op = "load") =>
        LET b     == disk.bytes
            short == ~disk.exists \/ Len(b) < 12
            magic == b[1] = 75 /\ b[2] = 67 /\ b[3] = 83
        IN  IF short THEN res.status = "Other" /\ ~handle.open
            ELSE /\ res.status = "InvalidHeader" <=> ~magic
                 /\ res.status = "UnsupportedNGramLength" <=> (magic /\ b[4] # 3)
                 /\ res.status = "UnsupportedNGramLength" => res.n = b[4]
                 /\ res.status = "ok" <=> (magic /\ b[4] = 3)
                 /\ res.status = "ok" =>
                        /\ handle.open
                        /\ handle.document_count = HdrDocs(b)
                        /\ handle.ngram_count = HdrNgrams(b)
                 /\ res.status # "ok" => ~handle.open

\* C6 witness: load succeeded on a header whose document count has only its
\* most significant byte set and whose n-gram count has only its least
\* significant byte set.
C6_Witness ==
    /\ res.op = "load"
    /\ res.status = "ok"
    /\ SubSeq(disk.bytes, 5, 12) = <<1, 0, 0, 0, 0, 0, 0, 1>>
    /\ handle.document_count = 16777216
    /\ handle.ngram_count = 1

\* C7: a << n has the byte length of a; every bit i set in a with
\* i + n < 8 * len(a) is set at i + n in a << n; every bit of a << n below n
\* is zero.
C7_ShlMovesBitsToHigherIndices ==
    (res.op = "shl") =>
        LET a    == input.a
            n    == input.n
            bits == 8 * Len(a)
        IN  /\ ~res.out.panic
            /\ Len(res.out.bytes) = Len(a)
            /\ \A i \in 0..(bits - 1) :
                   (TestBit(a, i) /\ i + n < bits) => TestBit(res.out.bytes, i + n)
            /\ \A j \in 0..(bits - 1) : j < n => ~TestBit(res.out.bytes, j)

\* C8: a & b, a | b and a ^ b return max(len(a), len(b)) bytes, and bit e of
\* byte k of the result is the operation applied to bit e of byte k of a and
\* of b, the shorter operand being zero-extended.
C8_BinaryOperatorsZeroExtend ==
    (res.op \in {"and", "or", "xor"}) =>
        LET a == input.a
            b == input.b
        IN  /\ ~res.out.panic
            /\ Len(res.out.bytes) = Max(Len(a), Len(b))
            /\ \A k \in 1..Len(res.out.bytes) : \A e \in 0..7 :
                   LET x == Bit(GetOr0(a, k - 1), e) = 1
                       y == Bit(GetOr0(b, k - 1), e) = 1
                       z == Bit(res.out.bytes[k], e) = 1
                   IN  z <=> (CASE res.op = "and" -> x /\ y
                                [] res.op = "or"  -> x \/ y
                                [] res.op = "xor" -> x # y)

\* The file is an all-alphanumeric file with one NUL byte inserted
OneNulInserted(content) ==
    /\ Cardinality({k \in 1..Len(content) : content[k] = 0}) = 1
    /\ \A k \in 1..Len(content) : content[k] = 0 \/ IsAsciiAlphanumeric(content[k])

\* C9 as stated: for an all-alphanumeric file of any length (0 and 1
\* included), inserting one NUL byte makes index_file return BinaryFile.
C9_NulMakesBinaryFile ==
    (res.op = "index_file" /\ OneNulInserted(input.content)) => ~res.out.ok

\* C9 amended: for an all-alphanumeric file of length 2 or more, inserting
\* one NUL byte (a file of 3 bytes or more) makes index_file return
\* BinaryFile; when the file with the NUL has fewer than 3 bytes index_file
\* returns the empty set.
C9_NulMakesBinaryFileFromThreeBytes ==
    (res.op = "index_file" /\ OneNulInserted(input.content)) =>
        IF Len(input.content) >= 3 THEN ~res.out.ok
        ELSE res.out.ok /\ res.out.trigrams = <<>>

\* C9 witness: "a9B" with a NUL inserted after the first byte is rejected.
C9_Witness ==
    /\ res.op = "index_file"
    /\ input.content = <<97, 0, 57, 66>>
    /\ ~res.out.ok

\* C10: when update finds a newer file it rewrites the index file from offset
\* 0 through the handle's own file and returns success.
C10_UpdateRewritesThroughHandle ==
    (res.op = "update" /\ res.needs_reindex) =>
        /\ res.status = "ok"
        /\ res.called
        /\ res.wrote
        /\ SubSeq(disk.bytes, 1, Len(UpdateImage)) = UpdateImage

\* No entry the walk yields has an mtime greater than the one the handle
\* recorded at load
NoEntryNewer ==
    \A k \in 1..MaxFiles : tree[k].exists => tree[k].mtime <= handle.modified

\* C11: when no entry yielded by the walk (the root directory included) has
\* an mtime strictly greater than the mtime the handle recorded at load,
\* update returns success and leaves the bytes of the index file and the
\* handle's document_count, ngram_count and modified as they were.
C11_NoNewerFileNoWork ==
    [][(res'.op = "update" /\ handle.open /\ NoEntryNewer /\ dir <= handle.modified) =>
           /\ res'.status = "ok"
           /\ disk' = disk
           /\ handle'.document_count = handle.document_count
           /\ handle'.ngram_count = handle.ngram_count
           /\ handle'.modified = handle.modified]_vars

\* C11 witness: update returned without work on an index of at least one
\* document written at tick 1, over a tree with a file whose mtime equals the
\* index's.
C11_Witness ==
    /\ res.op = "update"
    /\ res.status = "ok"
    /\ ~res.called
    /\ handle.modified = 1
    /\ handle.document_count >= 1
    /\ \E k \in 1..MaxFiles : tree[k].exists /\ tree[k].mtime = handle.modified

\* The search has returned
FindDone == res.op = "find_step" /\ res.done

\* Every record index sought lies inside the table; a search that returned
\* absent left the loop with the midpoint on or outside an end of the window;
\* and the search returned what find_trigram returns
FindInBounds ==
    (res.op = "find_step") =>
        /\ \A k \in 1..Len(res.out.probes) :
               0 <= res.out.probes[k] /\ res.out.probes[k] < handle.ngram_count
        /\ 0 <= res.rec_start /\ res.rec_end <= handle.ngram_count
        /\ (res.done /\ ~res.out.found) =>
               /\ res.out.status = "ok"
               /\ res.rec <= res.rec_start \/ res.rec >= res.rec_end
        /\ res.done => res.out = find_trigram(handle, disk.bytes, input.trigram)

\* An iteration returns or strictly shrinks the window [rec_start, rec_end)
FindShrinks ==
    (res.op = "find_step" /\ res'.op = "find_step") =>
        \/ res'.done
        \/ /\ res'.rec_start >= res.rec_start
           /\ res'.rec_end <= res.rec_end
           /\ res'.rec_end - res'.rec_start < res.rec_end - res.rec_start

\* C12: for every ngram_count >= 0 and every queried trigram the binary
\* search of find_trigram terminates: each iteration returns or strictly
\* shrinks the window, the search ends with absent when the midpoint reaches
\* rec_start or rec_end, and every record index it seeks to is in
\* 0..ngram_count-1.
C12_FindTrigramTerminatesInBounds ==
    /\ []FindInBounds
    /\ [][FindShrinks]_vars
    /\ <>FindDone

\* C12 witness: on a table of MaxRecords records the search returned absent
\* after two or more probes.
C12_Witness ==
    /\ FindDone
    /\ ~res.out.found
    /\ handle.ngram_count = MaxRecords
    /\ Len(res.out.probes) >= 2

\* The last create or update returned success, so main goes on to search
HandleInUse ==
    /\ handle.open
    /\ res.op \in {"create", "update"}
    /\ res.status = "ok"

\* C13: after create or load followed by updates that returned success, the
\* handle's document_count and ngram_count equal the counts in the header of
\* the index file as it is on disk, so the record width and the start of the
\* document table that find_trigram and find_document compute from the
\* handle address the tables of that file: every record and every document
\* read through the handle is the one the file's own header lays out.
C13_HandleCountsMatchFile ==
    HandleInUse =>
        /\ disk.exists
        /\ handle.document_count = HdrDocs(disk.bytes)
        /\ handle.ngram_count = HdrNgrams(disk.bytes)
        /\ bitmask_len(handle) + 3 = RecWidth(disk.bytes)
        /\ DocTableStart(handle) = 12 + HdrNgrams(disk.bytes) * RecWidth(disk.bytes)
        /\ DocTableStart(handle) <= Len(disk.bytes)
        /\ Len(TablePaths(disk.bytes)) = handle.document_count
        /\ \A i \in 0..(handle.document_count - 1) :
               find_document(handle, disk.bytes, i) =
                   [found |-> TRUE, path |-> TablePaths(disk.bytes)[i + 1]]
        /\ ~find_document(handle, disk.bytes, handle.document_count).found
        /\ \A r \in 0..(handle.ngram_count - 1) :
               /\ CanRead(disk.bytes, HEADER_LEN + r * (bitmask_len(handle) + 3),
                          bitmask_len(handle) + 3)
               /\ ReadAt(disk.bytes, HEADER_LEN + r * (bitmask_len(handle) + 3), 3)
                      = RecTrigram(disk.bytes, r)

\* C13 witness: an update returned success on the handle of an index of one
\* document and two or more records, while the tree holds two files.
C13_Witness ==
    /\ res.op = "update"
    /\ res.status = "ok"
    /\ handle.document_count = 1
    /\ handle.ngram_count >= 2
    /\ \E j, k \in 1..MaxFiles : j # k /\ tree[j].exists /\ tree[k].exists

====
